---- MODULE Spec2Model ----
(***************************************************************************)
(* Span lifecycle of OpenTelemetryMiddleware (ASGI instrumentation).       *)
(*                                                                         *)
(* One middleware instance serves the request slots of Reqs.  A slot runs  *)
(* __call__ for one request at a time; the steps of a request are the      *)
(* synchronous stretches of __call__, otel_send and otel_receive between   *)
(* their suspension points (await self.app, await send, await receive).    *)
(*                                                                         *)
(* Conventions: Python None is NoneVal for integers and the empty sequence *)
(* for header lists and getter results (the code only tests them for       *)
(* truth).  Header values are byte strings, modelled as sequences of byte  *)
(* values; header names are strings.                                       *)
(***************************************************************************)
EXTENDS Integers, Sequences, FiniteSets, TLC

\* ------------------------------------------------------------------ bounds

\* The handler of one request stops sending once the server span's end was
\* called this often.
MaxEndCalls == 2

\* The request slots served concurrently by the one middleware instance.
Reqs == {"A", "B"}

\* Longest header list the setter is applied to.
MaxHeaders == 2

\* Longest header list custom header attributes are collected from.
MaxRawHeaders == 3

NoneVal == -1

\* ------------------------------------------------------------- byte strings

B0 == <<48>>          \* b"0"
B5 == <<53>>          \* b"5"
B7 == <<55>>          \* b"7"
BAbc == <<97, 98>>    \* b"ab", not a number
BBad == <<255>>       \* b"\xff", not valid UTF-8

\* Strings are sequences of code points, byte strings sequences of bytes.
\* UTF-8 is modelled for code points below 0x800: one byte below 0x80, else
\* a lead byte 0xC2..0xDF and a continuation byte 0x80..0xBF.

\* bytes.decode("utf8") succeeds.
RECURSIVE Decodable(_)
Decodable(b) ==
    IF b = <<>> THEN TRUE
    ELSE IF b[1] < 128 THEN Decodable(Tail(b))
    ELSE IF b[1] \in 194..223 /\ Len(b) >= 2 /\ b[2] \in 128..191
    THEN Decodable(Tail(Tail(b)))
    ELSE FALSE

\* bytes.decode("utf8"), where it succeeds.
RECURSIVE Decode(_)
Decode(b) ==
    IF b = <<>> THEN <<>>
    ELSE IF b[1] < 128 \/ Len(b) < 2 THEN <<b[1]>> \o Decode(Tail(b))
    ELSE <<(b[1] - 192) * 64 + (b[2] - 128)>> \o Decode(Tail(Tail(b)))

\* str.encode(): UTF-8.
RECURSIVE Encode(_)
Encode(str) ==
    IF str = <<>> THEN <<>>
    ELSE IF str[1] < 128 THEN <<str[1]>> \o Encode(Tail(str))
    ELSE <<192 + (str[1] \div 64), 128 + (str[1] % 64)>> \o Encode(Tail(str))

\* int(str) succeeds: a non-empty string of decimal digits.
IsInt(b) == Len(b) > 0 /\ \A i \in DOMAIN b : b[i] \in 48..57

RECURSIVE IntOf(_)
IntOf(b) == IF Len(b) = 0 THEN 0
            ELSE 10 * IntOf(SubSeq(b, 1, Len(b) - 1)) + (b[Len(b)] - 48)

\* str.lower() on the header names that occur.
Lower(name) == CASE name = "Content-Length" -> "content-length"
                 [] name = "Host" -> "host"
                 [] name = "X-Foo" -> "x-foo"
                 [] name = "X-FOO" -> "x-foo"
                 [] OTHER -> name

\* ------------------------------------------------------------ header access

\* carrier.get("headers"): the header list, None (here <<>>) when missing.
CarrierHeaders(carrier) ==
    IF "headers" \in DOMAIN carrier THEN carrier.headers ELSE <<>>

MatchingHeaders(carrier, key) ==
    SelectSeq(CarrierHeaders(carrier), LAMBDA h : Lower(h[1]) = Lower(key))

\* ASGIGetter.get raises UnicodeDecodeError: a matching header's value does
\* not decode.
GetRaises(carrier, key) ==
    \E i \in DOMAIN MatchingHeaders(carrier, key) :
        ~Decodable(MatchingHeaders(carrier, key)[i][2])

\* ASGIGetter.get: the values of the headers named key, in order; None
\* (here <<>>) when there is none.
ASGIGetter_get(carrier, key) ==
    [i \in DOMAIN MatchingHeaders(carrier, key) |->
        Decode(MatchingHeaders(carrier, key)[i][2])]

\* Mutant: the setter replaces the headers of that name.
ASGISetter_set_Replaces(carrier, key, value) ==
    [f \in DOMAIN carrier \cup {"headers"} |->
        IF f = "headers"
        THEN Append(SelectSeq(CarrierHeaders(carrier),
                              LAMBDA h : Lower(h[1]) # Lower(key)),
                    <<Lower(key), Encode(value)>>)
        ELSE carrier[f]]

\* ASGISetter.set: appends one pair, creating the list when it is missing.
ASGISetter_set(carrier, key, value) ==
    [f \in DOMAIN carrier \cup {"headers"} |->
        IF f = "headers"
        THEN Append(CarrierHeaders(carrier), <<Lower(key), Encode(value)>>)
        ELSE carrier[f]]

\* ----------------------------------------------------------------- messages

\* message["status"] of http.response.start: an int, a str or None.
StatusInt(n) == [t |-> "int", i |-> n, s |-> <<>>]
StatusStr(b) == [t |-> "str", i |-> 0, s |-> b]
StatusNone == [t |-> "none", i |-> 0, s |-> <<>>]
NoStatus == [t |-> "absent", i |-> 0, s |-> <<>>]

\* int(status_code) raises ValueError / TypeError.
IntValueError(st) == st.t = "str" /\ ~IsInt(st.s)
IntTypeError(st) == st.t = "none"

\* message.get(field, False)
MsgGet(m, f) == IF f \in DOMAIN m THEN m[f] ELSE FALSE

NoMsg == [type |-> "none"]

ContentLength(name, b) == << <<name, b>> >>

StartMsgs(statuses, headerLists) ==
    {[type |-> "http.response.start", status |-> st] : st \in statuses}
    \cup {[type |-> "http.response.start", status |-> StatusInt(200),
           trailers |-> TRUE]}
    \cup {[type |-> "http.response.start", status |-> StatusInt(200),
           headers |-> h] : h \in headerLists}

BodyMsgs ==
    {[type |-> "http.response.body"],
     [type |-> "http.response.body", more_body |-> TRUE]}

TrailerMsgs ==
    {[type |-> "http.response.trailers", headers |-> <<>>],
     [type |-> "http.response.trailers", headers |-> <<>>, more_trailers |-> TRUE]}

WebsocketMsgs == {[type |-> "websocket.send"], [type |-> "websocket.close"]}

\* -------------------------------------------------------------------- state

VARIABLES
    req,                    \* per request slot: the locals of __call__ and its closures
    content_length_header,  \* self.content_length_header
    active_requests,        \* value of self.active_requests_counter
    sched,                  \* how the server runs the slots: "serial" | "concurrent",
                            \* or "capture": serial, response headers captured
    pure                    \* argument and result of a helper function applied on
                            \* its own (SpecPure); NoPure in the request runs

vars == <<req, content_length_header, active_requests, sched, pure>>

NoPure == [fn |-> "none"]

\* A call made on the server span, the context or a metric instrument.
Call(op, val) == <<op, val>>

InitReq ==
    [pc |-> "idle",               \* idle | app | send | receive | done
     type |-> "none",             \* scope["type"]
     excluded |-> FALSE,          \* excluded_urls.url_disabled(url)
     headers |-> <<>>,            \* scope["headers"]
     wrapped |-> FALSE,           \* the handler was given otel_receive / otel_send
     sampled |-> FALSE,           \* the server span records (until it is ended)
     token |-> FALSE,             \* _start_internal_or_server_span returned a token
     calls |-> <<>>,              \* calls made for this request, in order
     expecting_trailers |-> FALSE,
     status_attr |-> NoStatus,    \* duration_attrs[HTTP_STATUS_CODE]
     span_status |-> NoStatus,    \* status last given to the server span
     span_attrs |-> <<>>,         \* response-header attributes set on the server span
     message |-> NoMsg,           \* the message of the send call in progress
     child_open |-> 0,            \* receive / send child spans not yet ended
     own_cl |-> NoneVal,          \* latest parseable content-length this request sent
     trailers |-> "none",         \* starts announcing trailers: none | passed | sent
     send_failed |-> FALSE,       \* the real send raised on a message that would
                                  \* have ended the server span
     hook_failed |-> FALSE,       \* the handler holds the exception the client
                                  \* response hook raised on a message that
                                  \* would have ended the server span
     raised |-> "none",           \* what the handler or the request hook raised
     outcome |-> "none"]          \* how __call__ finished: returned | an exception

Count(calls, op) == Cardinality({i \in DOMAIN calls : calls[i][1] = op})

\* span.is_recording() of the server span: a sampled span that was not ended.
IsRecording(r) == r.sampled /\ Count(r.calls, "end") = 0

\* ------------------------------------------------------------ pure decisions

\* Mutant: the exclusion list is not consulted.
IsTraced_IgnoresExclusion(type, excluded) == type \in {"http", "websocket"}

\* __call__ lines 573-578: the request is traced.
IsTraced(type, excluded) == type \in {"http", "websocket"} /\ ~excluded

\* Mutant: every body chunk ends the span, whatever its more_body flag.
ShouldEnd_IgnoresMoreBody(expecting_trailers, message) ==
    \/ /\ ~expecting_trailers
       /\ message.type = "http.response.body"
    \/ /\ expecting_trailers
       /\ message.type = "http.response.trailers"
       /\ ~MsgGet(message, "more_trailers")

\* otel_send lines 751-759: the server span ends after this message.
ShouldEnd(expecting_trailers, message) ==
    \/ /\ ~expecting_trailers
       /\ message.type = "http.response.body"
       /\ ~MsgGet(message, "more_body")
    \/ /\ expecting_trailers
       /\ message.type = "http.response.trailers"
       /\ ~MsgGet(message, "more_trailers")

\* Mutant: the status is set whether or not the span records.
set_status_code_AnySpan(recording, st) ==
    IF IntTypeError(st) THEN "TypeError"
    ELSE IF IntValueError(st) THEN "error_status"
    ELSE "set"

\* set_status_code: what it does to a span.
set_status_code(recording, st) ==
    IF ~recording THEN "noop"
    ELSE IF IntTypeError(st) THEN "TypeError"
    ELSE IF IntValueError(st) THEN "error_status"
    ELSE "set"

\* --------------------------------------------------------- __call__: finally

\* Truth value of self.content_length_header (None and 0 are false).
Truthy(v) == v # NoneVal /\ v # 0

\* Mutant: the metrics are recorded whatever the scope type.
FinallyMetrics_AnyType(r, clh) ==
    <<Call("duration_record", NoneVal), Call("active_add", -1)>>
    \o (IF Truthy(clh) THEN <<Call("response_size_record", clh)>> ELSE <<>>)

\* Lines 636-648: duration, active requests and response size, for http.
FinallyMetrics(r, clh) ==
    IF r.type # "http" THEN <<>>
    ELSE <<Call("duration_record", NoneVal), Call("active_add", -1)>>
         \o (IF Truthy(clh) THEN <<Call("response_size_record", clh)>> ELSE <<>>)

\* Line 649: asgi_getter.get(scope, "content-length") raises.
FinallyRaises(r) == r.type = "http" /\ GetRaises(r, "content-length")

\* Lines 649-658: the request size, from the first content-length header.
FinallyRequestSize(r) ==
    IF r.type # "http" \/ ASGIGetter_get(r, "content-length") = <<>> THEN <<>>
    ELSE IF ~IsInt(ASGIGetter_get(r, "content-length")[1]) THEN <<>>
    ELSE <<Call("request_size_record", IntOf(ASGIGetter_get(r, "content-length")[1]))>>

\* Lines 659-662: detach the token, end the span if it still records.
FinallyRelease(r) ==
    (IF r.token THEN <<Call("detach", NoneVal)>> ELSE <<>>)
    \o (IF IsRecording(r) THEN <<Call("end", NoneVal)>> ELSE <<>>)

\* Mutant: the metrics are recorded after the handler call instead of in a
\* finally block, so an exception skips them.
Finally_MetricsOnReturnOnly(r, exc, clh) ==
    [r EXCEPT !.pc = "done", !.raised = exc,
              !.calls = r.calls
                        \o (IF exc = "returned"
                            THEN FinallyMetrics(r, clh) \o FinallyRequestSize(r)
                            ELSE <<>>)
                        \o FinallyRelease(r),
              !.outcome = IF exc = "returned" /\ FinallyRaises(r)
                          THEN "UnicodeDecodeError" ELSE exc]

\* The finally block of __call__, run with exception exc pending ("returned"
\* when there is none): the request as it is when __call__ has finished.
Finally(r, exc, clh) ==
    IF FinallyRaises(r)
    THEN [r EXCEPT !.pc = "done", !.raised = exc,
                   !.calls = r.calls \o FinallyMetrics(r, clh),
                   !.outcome = "UnicodeDecodeError"]
    ELSE [r EXCEPT !.pc = "done", !.raised = exc,
                   !.calls = r.calls \o FinallyMetrics(r, clh)
                                     \o FinallyRequestSize(r) \o FinallyRelease(r),
                   !.outcome = exc]

ActiveAfterFinally(r, n) == IF r.type = "http" THEN n - 1 ELSE n

\* ------------------------------------- collect_custom_headers_attributes

\* Mutant: a repeated header replaces the value collected so far.
RECURSIVE DecodeHeaders_LastWins(_, _)
DecodeHeaders_LastWins(raw_headers, headers) ==
    IF raw_headers = <<>> THEN headers
    ELSE DecodeHeaders_LastWins(Tail(raw_headers),
             [k \in DOMAIN headers \cup {Lower(raw_headers[1][1])} |->
                 IF k = Lower(raw_headers[1][1]) THEN Decode(raw_headers[1][2])
                 ELSE headers[k]])

\* Lines 350-359: the loop over the raw headers, filling the dict headers;
\* a repeated name gets "," and the value appended.
RECURSIVE DecodeHeaders(_, _)
DecodeHeaders(raw_headers, headers) ==
    IF raw_headers = <<>> THEN headers
    ELSE DecodeHeaders(Tail(raw_headers),
             IF Lower(raw_headers[1][1]) \in DOMAIN headers
             THEN [headers EXCEPT ![Lower(raw_headers[1][1])] =
                       @ \o <<44>> \o Decode(raw_headers[1][2])]
             ELSE [k \in DOMAIN headers \cup {Lower(raw_headers[1][1])} |->
                      IF k = Lower(raw_headers[1][1]) THEN Decode(raw_headers[1][2])
                      ELSE headers[k]])

\* Line 354 raises: a header value does not decode.
CustomHeadersRaise(carrier) ==
    \E i \in DOMAIN CarrierHeaders(carrier) : ~Decodable(CarrierHeaders(carrier)[i][2])

\* A name pattern, as a case-insensitive regular expression over the header
\* names that occur, matches the whole name.
PatternMatches(pattern, name) ==
    CASE pattern = "x-.*" -> Lower(name) \in {"x-foo", "x-bar"}
      [] pattern = ".*foo.*" -> Lower(name) \in {"x-foo"}
      [] OTHER -> Lower(name) = Lower(pattern)

\* normalise_request_header_name: lower case, "-" replaced by "_", prefixed.
normalise_request_header_name(name) ==
    CASE Lower(name) = "x-foo" -> "http.request.header.x_foo"
      [] Lower(name) = "x-bar" -> "http.request.header.x_bar"
      [] Lower(name) = "content-type" -> "http.request.header.content_type"
      [] OTHER -> "http.request.header." \o Lower(name)

Redacted == <<91, 82, 69, 68, 65, 67, 84, 69, 68, 93>>    \* "[REDACTED]"

\* SanitizeValue.sanitize_header_values: the entries whose name matches an
\* allowed pattern, renamed, the value redacted when the name matches a
\* sanitize pattern.
sanitize_header_values(sanitize_fields, headers, header_regexes) ==
    LET kept == {k \in DOMAIN headers : \E p \in header_regexes : PatternMatches(p, k)}
    IN  [n \in {normalise_request_header_name(k) : k \in kept} |->
            LET k == CHOOSE x \in kept : normalise_request_header_name(x) = n
            IN  IF \E p \in sanitize_fields : PatternMatches(p, k)
                THEN Redacted ELSE headers[k]]

\* The dict handed to the sanitizer (lines 350-359).
DecodedHeaders(carrier) == DecodeHeaders(CarrierHeaders(carrier), <<>>)

\* collect_custom_headers_attributes (lines 337-365).
collect_custom_headers_attributes(carrier, sanitize_fields, header_regexes) ==
    sanitize_header_values(sanitize_fields, DecodedHeaders(carrier), header_regexes)

\* ------------------------------------------------------------------ inputs

Serial == sched = "serial"

\* The middleware was built with http_capture_headers_server_response set.
Capture == sched = "capture"

\* A serial server handles one request at a time: it needs one slot.
SerialSlot == "A"

Exceptions == IF Serial THEN {"AppError", "CancelledError"} ELSE {"AppError"}

ScopeTypes ==
    IF Serial THEN {"http", "websocket", "lifespan"}
    ELSE IF Capture THEN {"http", "websocket"}
    ELSE {"http"}
ScopeHeaders ==
    IF Serial
    THEN {<<>>, ContentLength("Content-Length", B5),
          ContentLength("content-length", BAbc), ContentLength("content-length", BBad)}
    ELSE {<<>>}
SpanKinds == IF Serial \/ Capture THEN {"SERVER", "INTERNAL"} ELSE {"SERVER"}
Raising == IF Serial \/ Capture THEN BOOLEAN ELSE {FALSE}
Recording == IF Serial \/ Capture THEN BOOLEAN ELSE {TRUE}
Propagators == IF Serial THEN BOOLEAN ELSE {FALSE}

\* The messages of a handler under response-header capture: starts with
\* and without a captured header, one with a header value that does not
\* decode, one with a status that is no number, one with no status value,
\* one announcing trailers, final trailers, bodies, and a websocket
\* message (the middleware does not check the message against the scope).
CaptureMsgs ==
    {[type |-> "http.response.start", status |-> StatusInt(200)],
     [type |-> "http.response.start", status |-> StatusInt(404),
      headers |-> << <<"x-foo", <<97>>>> >>],
     [type |-> "http.response.start", status |-> StatusInt(200),
      headers |-> << <<"x-bar", BBad>> >>],
     [type |-> "http.response.start", status |-> StatusStr(BAbc)],
     [type |-> "http.response.start", status |-> StatusNone],
     [type |-> "http.response.start", status |-> StatusInt(200), trailers |-> TRUE],
     [type |-> "http.response.trailers", headers |-> <<>>],
     [type |-> "websocket.send"]}
    \cup BodyMsgs

\* The messages a handler of a scope of this type sends.
SendMsgs(type) ==
    IF type = "websocket" THEN WebsocketMsgs
    ELSE IF Capture THEN CaptureMsgs
    ELSE IF Serial
    THEN StartMsgs({StatusInt(200), StatusNone},
                   {ContentLength("content-length", B0),
                    ContentLength("content-length", B5),
                    ContentLength("content-length", BAbc),
                    ContentLength("content-length", BBad)})
         \cup BodyMsgs \cup TrailerMsgs
    ELSE StartMsgs({StatusInt(200)},
                   {ContentLength("content-length", B5),
                    ContentLength("Content-Length", B7)})
         \cup {[type |-> "http.response.body"],
               [type |-> "http.response.trailers", headers |-> <<>>]}

\* ----------------------------------------------------------------- otel_send

IsStart(m) == m.type = "http.response.start"

\* Lines 698-710 raise: int(None) in set_status_code is a TypeError.
StatusRaises(m, child_rec) == child_rec /\ IsStart(m) /\ IntTypeError(m.status)

\* Lines 698-710: the status goes to duration_attrs and to the server span,
\* the trailers flag to expecting_trailers; all only if the send span records.
AfterStatus(r, m, child_rec) ==
    IF ~child_rec THEN r
    ELSE IF IsStart(m)
    THEN [r EXCEPT !.status_attr = m.status,
                   !.span_status =
                       IF set_status_code(IsRecording(r), m.status)
                              \in {"set", "error_status"}
                       THEN m.status ELSE r.span_status,
                   !.expecting_trailers =
                       IF StatusRaises(m, child_rec) THEN r.expecting_trailers
                       ELSE MsgGet(m, "trailers")]
    ELSE IF m.type = "websocket.send"
    THEN [r EXCEPT !.span_status =
                       IF IsRecording(r) THEN StatusInt(200) ELSE r.span_status]
    ELSE r

\* Lines 732-740: the response propagator adds its header to the message.
Injected(m, prop) ==
    IF prop THEN ASGISetter_set(m, "traceresponse", B0) ELSE m

\* Mutant: a content-length is cached only while none is cached yet.
NewContentLength_FirstWins(m, clh) ==
    IF clh # NoneVal \/ ASGIGetter_get(m, "content-length") = <<>> THEN clh
    ELSE IF IsInt(ASGIGetter_get(m, "content-length")[1])
    THEN IntOf(ASGIGetter_get(m, "content-length")[1])
    ELSE clh

\* Lines 742-747: the content-length cached on the instance after this message.
NewContentLength(m, clh) ==
    IF ASGIGetter_get(m, "content-length") = <<>> THEN clh
    ELSE IF IsInt(ASGIGetter_get(m, "content-length")[1])
    THEN IntOf(ASGIGetter_get(m, "content-length")[1])
    ELSE clh

\* otel_send raises after the client response hook and before the real send.
SendAborts(m, child_rec, prop) ==
    \/ StatusRaises(m, child_rec)
    \/ GetRaises(Injected(m, prop), "content-length")

\* Lines 751-760: after the real send returned, end the server span or not.
\* Mutant: the trailers-expected flag is one flag of the middleware
\* instance, set while any request in flight expects trailers.
AfterSend_SharedFlag(r) ==
    IF ShouldEnd(\E t \in Reqs : req[t].expecting_trailers, r.message)
    THEN [r EXCEPT !.calls = Append(r.calls, Call("end", NoneVal))]
    ELSE r

AfterSend(r) ==
    IF ShouldEnd(r.expecting_trailers, r.message)
    THEN [r EXCEPT !.calls = Append(r.calls, Call("end", NoneVal))]
    ELSE r

\* The receive / send child span is started when its with block is entered
\* (lines 669, 693) ...
ChildOpened(r) == [r EXCEPT !.child_open = @ + 1]

\* Mutant: the child span is started without a with block and never ended.
ChildClosed_Leaks(r) == [r EXCEPT !.message = NoMsg, !.pc = "app"]

\* ... and ended when the block is left, by return or by exception.
ChildClosed(r) == [r EXCEPT !.child_open = @ - 1, !.message = NoMsg, !.pc = "app"]

\* What the handler has told about trailers so far.  "none": no start
\* message announcing trailers was passed to otel_send; "sent": the latest
\* start passed to otel_send announced trailers and its real send returned;
\* "passed": anything else.
TrailersPassed(r, m) ==
    IF ~IsStart(m) THEN r
    ELSE IF MsgGet(m, "trailers") \/ r.trailers # "none"
    THEN [r EXCEPT !.trailers = "passed"]
    ELSE r

TrailersSent(r, m) ==
    IF IsStart(m) /\ MsgGet(m, "trailers")
    THEN [r EXCEPT !.trailers = "sent"] ELSE r

\* ------------------------------------------------------------------ actions

Init ==
    /\ req = [s \in Reqs |-> InitReq]
    /\ content_length_header = NoneVal
    /\ active_requests = 0
    /\ sched = "serial"
    /\ pure = NoPure

InitConcurrent ==
    /\ req = [s \in Reqs |-> InitReq]
    /\ content_length_header = NoneVal
    /\ active_requests = 0
    /\ sched = "concurrent"
    /\ pure = NoPure

InitCapture ==
    /\ req = [s \in Reqs |-> InitReq]
    /\ content_length_header = NoneVal
    /\ active_requests = 0
    /\ sched = "capture"
    /\ pure = NoPure

\* Mutant: the active-request counter is incremented whatever the scope type.
Started_CountsAnyType(type, kind, sampled, headers) ==
    [InitReq EXCEPT
        !.type = type, !.headers = headers, !.sampled = sampled,
        !.token = (kind = "SERVER"),
        !.calls = <<Call("start_span", NoneVal)>>
                  \o (IF kind = "SERVER" THEN <<Call("attach", NoneVal)>> ELSE <<>>)
                  \o <<Call("active_add", 1)>>]

\* The span, token and counter state when the server span has been started
\* (lines 580-598).
Started(type, kind, sampled, headers) ==
    [InitReq EXCEPT
        !.type = type, !.headers = headers, !.sampled = sampled,
        !.token = (kind = "SERVER"),
        !.calls = <<Call("start_span", NoneVal)>>
                  \o (IF kind = "SERVER" THEN <<Call("attach", NoneVal)>> ELSE <<>>)
                  \o (IF type = "http" THEN <<Call("active_add", 1)>> ELSE <<>>)]

\* __call__ up to `await self.app(...)` (lines 572-634); when the server
\* request hook raises, through the finally block.
CallStart(s, type, excluded, kind, sampled, headers, hook_raises) ==
    /\ req[s].pc = "idle"
    /\ (Serial \/ Capture) => s = SerialSlot
    /\ UNCHANGED <<content_length_header, sched, pure>>
    /\ IF ~IsTraced(type, excluded)
       THEN /\ req' = [req EXCEPT ![s] =
                        [InitReq EXCEPT !.pc = "app", !.type = type,
                                        !.excluded = excluded,
                                        !.headers = headers,
                                        !.calls = <<Call("app", 0)>>]]
            /\ UNCHANGED active_requests
       ELSE IF hook_raises
       THEN /\ req' = [req EXCEPT ![s] =
                        Finally([Started(type, kind, sampled, headers) EXCEPT
                                    !.excluded = excluded],
                                "HookError", content_length_header)]
            /\ UNCHANGED active_requests
       ELSE /\ req' = [req EXCEPT ![s] =
                        [Started(type, kind, sampled, headers) EXCEPT
                            !.excluded = excluded,
                            !.pc = "app", !.wrapped = TRUE,
                            !.calls = Append(@, Call("app", 1))]]
            /\ active_requests' =
                   IF type = "http" THEN active_requests + 1 ELSE active_requests

\* The handler may call otel_send: in the serial runs until the server
\* span's end was called MaxEndCalls times, in the concurrent runs until it
\* was called once.
CanSend(s) ==
    /\ req[s].pc = "app" /\ req[s].wrapped
    /\ Count(req[s].calls, "end") < (IF Serial \/ Capture THEN MaxEndCalls ELSE 1)

\* self.http_capture_headers_server_response: the allowed name patterns.
CaptureResponse == IF Capture THEN {"x-.*"} ELSE {}

\* Lines 712-722: the response headers of this message are collected.
Captures(r, m, child_rec) ==
    /\ child_rec /\ IsRecording(r) /\ r.token
    /\ "headers" \in DOMAIN m
    /\ CaptureResponse # {}

\* collect_custom_headers_attributes raises inside otel_send (line 354).
CaptureRaises(r, m, child_rec) ==
    /\ ~StatusRaises(m, child_rec)
    /\ Captures(r, m, child_rec)
    /\ CustomHeadersRaise(m)

\* normalise_response_header_name: lower case, "-" replaced by "_", prefixed.
normalise_response_header_name(name) ==
    CASE Lower(name) = "x-foo" -> "http.response.header.x_foo"
      [] Lower(name) = "x-bar" -> "http.response.header.x_bar"
      [] OTHER -> "http.response.header." \o Lower(name)

\* The attributes collected from the response headers (lines 717-726), no
\* sanitize pattern being configured.
ResponseAttributes(m) ==
    LET headers == DecodedHeaders(m)
        kept == {k \in DOMAIN headers : \E p \in CaptureResponse : PatternMatches(p, k)}
    IN  [n \in {normalise_response_header_name(k) : k \in kept} |->
            headers[CHOOSE k \in kept : normalise_response_header_name(k) = n]]

\* server_span.set_attributes(custom_response_attributes), lines 727-730.
SetAttributes(attrs, new) ==
    [n \in DOMAIN attrs \cup DOMAIN new |-> IF n \in DOMAIN new THEN new[n] ELSE attrs[n]]

\* Lines 698-730: the status, then the response-header attributes.
AfterAttributes(r, m, child_rec) ==
    IF StatusRaises(m, child_rec) \/ ~Captures(r, m, child_rec) \/ CustomHeadersRaise(m)
    THEN AfterStatus(r, m, child_rec)
    ELSE [AfterStatus(r, m, child_rec) EXCEPT
             !.span_attrs = SetAttributes(@, ResponseAttributes(m))]

\* The handler goes on after a wrapped call raised to it.
Resumed(r) == [r EXCEPT !.hook_failed = FALSE]

\* Mutant: after the hook raised, the termination decision is still taken.
AppSendHookRaises_EndsSpan(s, m) ==
    /\ CanSend(s)
    /\ req' = [req EXCEPT ![s] =
                 [ChildClosed(ChildOpened(
                      AfterSend([TrailersPassed(Resumed(req[s]), m) EXCEPT !.message = m])))
                  EXCEPT !.hook_failed = ShouldEnd(req[s].expecting_trailers, m)]]
    /\ UNCHANGED <<content_length_header, active_requests, sched, pure>>

\* The handler calls otel_send(m) and the client response hook raises
\* (lines 693-697): the child span ends, the handler gets the exception.
AppSendHookRaises(s, m) ==
    /\ CanSend(s)
    /\ req' = [req EXCEPT ![s] =
                 [ChildClosed(ChildOpened(TrailersPassed(Resumed(req[s]), m)))
                  EXCEPT !.hook_failed = ShouldEnd(req[s].expecting_trailers, m)]]
    /\ UNCHANGED <<content_length_header, active_requests, sched, pure>>

\* The handler calls otel_send(m): lines 691-748, up to `await send(message)`.
AppSend(s, m, child_rec, prop) ==
    /\ CanSend(s)
    /\ UNCHANGED <<active_requests, sched, pure>>
    /\ LET r == TrailersPassed(Resumed(req[s]), m) IN
       IF SendAborts(m, child_rec, prop) \/ CaptureRaises(r, m, child_rec)
       THEN /\ req' = [req EXCEPT ![s] =
                        ChildClosed(ChildOpened(AfterAttributes(r, m, child_rec)))]
            /\ UNCHANGED content_length_header
       ELSE /\ req' = [req EXCEPT ![s] =
                        [ChildOpened(AfterAttributes(r, m, child_rec)) EXCEPT
                            !.pc = "send",
                            !.message = Injected(m, prop),
                            !.own_cl = NewContentLength(Injected(m, prop), @)]]
            /\ content_length_header' =
                   NewContentLength(Injected(m, prop), content_length_header)

\* The real send returns: the child span ends, then lines 751-760.
SendReturns(s) ==
    /\ req[s].pc = "send"
    /\ req' = [req EXCEPT ![s] =
                 TrailersSent(ChildClosed(AfterSend(req[s])), req[s].message)]
    /\ UNCHANGED <<content_length_header, active_requests, sched, pure>>

\* The real send raises (or the task is cancelled in it): the child span
\* ends and the exception reaches the handler.
SendRaises(s) ==
    /\ req[s].pc = "send"
    /\ req' = [req EXCEPT ![s] =
                 [ChildClosed(req[s]) EXCEPT
                     !.send_failed =
                         @ \/ ShouldEnd(req[s].expecting_trailers, req[s].message)]]
    /\ UNCHANGED <<content_length_header, active_requests, sched, pure>>

\* The handler calls otel_receive(): lines 668-674, up to `await receive()`.
AppReceive(s) ==
    /\ req[s].pc = "app" /\ req[s].wrapped
    /\ req' = [req EXCEPT ![s] = [ChildOpened(Resumed(@)) EXCEPT !.pc = "receive"]]
    /\ UNCHANGED <<content_length_header, active_requests, sched, pure>>

\* The real receive returns or raises: the child span ends (lines 675-681).
ReceiveDone(s) ==
    /\ req[s].pc = "receive"
    /\ req' = [req EXCEPT ![s] = ChildClosed(req[s])]
    /\ UNCHANGED <<content_length_header, active_requests, sched, pure>>

\* `await self.app(...)` is over, with exc raised ("returned": none).
AppDone(s, exc) ==
    /\ req[s].pc = "app"
    /\ UNCHANGED <<content_length_header, sched, pure>>
    /\ IF req[s].wrapped
       THEN /\ req' = [req EXCEPT ![s] =
                        Finally(Resumed(req[s]), exc, content_length_header)]
            /\ active_requests' = ActiveAfterFinally(req[s], active_requests)
       ELSE /\ req' = [req EXCEPT ![s] =
                        [@ EXCEPT !.pc = "done", !.raised = exc, !.outcome = exc]]
            /\ UNCHANGED active_requests

AppReturns(s) == AppDone(s, "returned")

AppRaises(s) == \E e \in Exceptions : AppDone(s, e)

\* The slot takes the next request; the instance keeps its state.
NextRequest(s) ==
    /\ req[s].pc = "done"
    /\ req' = [req EXCEPT ![s] = InitReq]
    /\ UNCHANGED <<content_length_header, active_requests, sched, pure>>

Next ==
    \E s \in Reqs :
        \/ /\ req[s].pc = "idle"
           /\ \E type \in ScopeTypes, excluded \in Raising, kind \in SpanKinds,
                 sampled \in Recording, headers \in ScopeHeaders,
                 hook_raises \in Raising :
                  CallStart(s, type, excluded, kind, sampled, headers, hook_raises)
        \/ /\ CanSend(s)
           /\ \E m \in SendMsgs(req[s].type) : AppSendHookRaises(s, m)
        \/ /\ CanSend(s)
           /\ \E m \in SendMsgs(req[s].type), child_rec \in Recording,
                 prop \in Propagators :
                  AppSend(s, m, child_rec, prop)
        \/ SendReturns(s)
        \/ SendRaises(s)
        \/ AppReceive(s)
        \/ ReceiveDone(s)
        \/ AppReturns(s)
        \/ AppRaises(s)
        \/ NextRequest(s)

Spec == Init /\ [][Next]_vars

SpecConcurrent == InitConcurrent /\ [][Next]_vars

SpecCapture == InitCapture /\ [][Next]_vars

\* ------------------------------------------- helper functions on their own

\* The header accessors: keys, values (str) and carriers they are applied to.
AccessorKeys == {"x-foo", "X-Foo", "host"}

AccessorValues == {<<53>>, <<233>>}    \* "5", "\u00e9"

AccessorCarriers ==
    {[type |-> "http"],
     [type |-> "http", headers |-> <<>>],
     [type |-> "http", headers |-> << <<"X-Foo", B7>> >>],
     [type |-> "http", headers |-> << <<"host", BBad>> >>]}

AccessorInit ==
    {[fn |-> "accessor", carrier |-> c, before |-> c, key |-> "", value |-> <<>>] :
        c \in AccessorCarriers}

\* asgi_setter.set(carrier, key, value) on the carrier at hand.
AccessorSet(key, value) ==
    /\ pure.fn = "accessor"
    /\ Len(CarrierHeaders(pure.carrier)) < MaxHeaders
    /\ pure' = [pure EXCEPT !.before = pure.carrier,
                            !.carrier = ASGISetter_set(pure.carrier, key, value),
                            !.key = key, !.value = value]
    /\ UNCHANGED <<req, content_length_header, active_requests, sched>>

\* ---- collect_request_attributes: the URL

\* scope.get(f, default)
ScopeGet(scope, f, default) == IF f \in DOMAIN scope THEN scope[f] ELSE default

\* str(port): decimal digits of an int, "None" of None.
RECURSIVE Digits(_)
Digits(n) == IF n < 10 THEN <<48 + n>> ELSE Digits(n \div 10) \o <<48 + (n % 10)>>

Str(port) == IF port = NoneVal THEN <<78, 111, 110, 101>> ELSE Digits(port)

\* Value of a hexadecimal digit, NoneVal for any other character.
HexVal(c) == IF c \in 48..57 THEN c - 48
             ELSE IF c \in 65..70 THEN c - 55
             ELSE IF c \in 97..102 THEN c - 87
             ELSE NoneVal

\* urllib.parse.unquote on escapes of ASCII characters: %XX becomes the
\* character, anything else stays.
RECURSIVE Unquote(_)
Unquote(str) ==
    IF str = <<>> THEN <<>>
    ELSE IF /\ str[1] = 37 /\ Len(str) >= 3
            /\ HexVal(str[2]) # NoneVal /\ HexVal(str[3]) # NoneVal
            /\ 16 * HexVal(str[2]) + HexVal(str[3]) < 128
    THEN <<16 * HexVal(str[2]) + HexVal(str[3])>> \o Unquote(SubSeq(str, 4, Len(str)))
    ELSE <<str[1]>> \o Unquote(Tail(str))

\* Mutant: the port suffix is left out for every port.
get_host_port_url_tuple_NoPort(scope) ==
    LET server == ScopeGet(scope, "server", <<<<48, 46, 48, 46, 48, 46, 48>>, 80>>)
        full_path == ScopeGet(scope, "root_path", <<>>) \o ScopeGet(scope, "path", <<>>)
    IN  [server_host |-> server[1], port |-> server[2],
         http_url |-> ScopeGet(scope, "scheme", <<104, 116, 116, 112>>)
                      \o <<58, 47, 47>> \o server[1] \o full_path]

\* get_host_port_url_tuple (lines 368-375); the default server is
\* ["0.0.0.0", 80], the default scheme "http".
get_host_port_url_tuple(scope) ==
    LET server == ScopeGet(scope, "server", <<<<48, 46, 48, 46, 48, 46, 48>>, 80>>)
        port == server[2]
        server_host == server[1] \o (IF Str(port) # <<56, 48>>
                                     THEN <<58>> \o Str(port) ELSE <<>>)
        full_path == ScopeGet(scope, "root_path", <<>>) \o ScopeGet(scope, "path", <<>>)
    IN  [server_host |-> server_host, port |-> port,
         http_url |-> ScopeGet(scope, "scheme", <<104, 116, 116, 112>>)
                      \o <<58, 47, 47>> \o server_host \o full_path]

\* Positions in a URL: the first "://", and the end of the network location
\* that follows it (the next "/", "?" or "#", or the end of the URL).
SchemeEnd(url) ==
    LET found == {i \in 1..(Len(url) - 2) : SubSeq(url, i, i + 2) = <<58, 47, 47>>}
    IN  IF found = {} THEN 0 ELSE CHOOSE i \in found : \A j \in found : i <= j

NetlocEnd(url) ==
    LET stops == {i \in (SchemeEnd(url) + 3)..Len(url) : url[i] \in {47, 63, 35}}
    IN  IF stops = {} THEN Len(url) + 1 ELSE CHOOSE i \in stops : \A j \in stops : i <= j

\* remove_url_credentials: what precedes the last "@" of the network
\* location is removed.
remove_url_credentials(url) ==
    LET ats == {i \in (SchemeEnd(url) + 3)..(NetlocEnd(url) - 1) : url[i] = 64}
    IN  IF SchemeEnd(url) = 0 \/ ats = {} THEN url
        ELSE SubSeq(url, 1, SchemeEnd(url) + 2)
             \o SubSeq(url, (CHOOSE i \in ats : \A j \in ats : i >= j) + 1, Len(url))

\* collect_request_attributes raises: the query string does not decode.
RequestAttributesRaise(scope) ==
    ~Decodable(ScopeGet(scope, "query_string", <<>>))

\* collect_request_attributes (lines 299-313): the HTTP_URL attribute.
collect_request_attributes(scope) ==
    LET http_url == get_host_port_url_tuple(scope).http_url
        query_string == ScopeGet(scope, "query_string", <<>>)
    IN  remove_url_credentials(
            IF query_string # <<>> /\ http_url # <<>>
            THEN http_url \o <<63>> \o Unquote(Decode(query_string))
            ELSE http_url)

\* The scopes the URL is derived from; every field may be missing.
UrlSchemes == {<<104, 116, 116, 112>>, <<104, 116, 116, 112, 115>>}   \* http, https

UrlServers ==
    {<<<<104>>, 80>>, <<<<104>>, 8080>>, <<<<104>>, NoneVal>>,       \* h
     <<<<117, 64, 104>>, 80>>}                                       \* u@h

UrlRootPaths == {<<>>, <<47, 114>>}                                  \* "", /r

UrlPaths == {<<47, 97>>, <<47, 97, 64, 98>>}                         \* /a, /a@b

UrlQueries == {<<>>, <<120, 61, 49>>, <<37, 52, 49>>, BBad}          \* x=1, %41

UrlScopes ==
    {[f \in present |->
         CASE f = "scheme" -> scheme [] f = "server" -> server
           [] f = "root_path" -> root_path [] f = "path" -> path
           [] f = "query_string" -> query_string] :
        present \in {fs \in SUBSET {"scheme", "server", "root_path", "path",
                                    "query_string"} : "path" \in fs},
        scheme \in UrlSchemes, server \in UrlServers, root_path \in UrlRootPaths,
        path \in UrlPaths, query_string \in UrlQueries}

UrlInit == {[fn |-> "url", scope |-> sc, result |-> <<>>, state |-> "called"] :
               sc \in UrlScopes}

\* collect_request_attributes(scope) returns or raises.
CollectRequestAttributes ==
    /\ pure.fn = "url" /\ pure.state = "called"
    /\ pure' = IF RequestAttributesRaise(pure.scope)
               THEN [pure EXCEPT !.state = "raised"]
               ELSE [pure EXCEPT !.state = "returned",
                                 !.result = collect_request_attributes(pure.scope)]
    /\ UNCHANGED <<req, content_length_header, active_requests, sched>>

\* ---- collect_custom_headers_attributes applied on its own

\* The raw headers, allowed patterns and sanitize patterns it is applied to.
RawHeaders ==
    {<<"content-type", <<116, 47, 112>>>>,     \* content-type: t/p
     <<"x-foo", <<97>>>>, <<"x-foo", <<98>>>>,  \* x-foo: a, x-foo: b
     <<"X-Foo", <<98>>>>,                       \* X-Foo: b
     <<"x-bar", BBad>>}

RECURSIVE SeqsUpTo(_, _)
SeqsUpTo(S, n) ==
    IF n = 0 THEN {<<>>}
    ELSE SeqsUpTo(S, n - 1)
         \cup {Append(q, x) : q \in {p \in SeqsUpTo(S, n - 1) : Len(p) = n - 1}, x \in S}

HeaderRegexes == {{}, {"x-.*"}, {"content-type", "X-FOO"}}

SanitizeFields == {{}, {".*foo.*"}}

HeadersInit ==
    {[fn |-> "headers", carrier |-> c, header_regexes |-> rx, sanitize_fields |-> sf,
      handed |-> <<>>, result |-> <<>>, state |-> "called"] :
        c \in {[type |-> "http"]}
               \cup {[type |-> "http", headers |-> h] : h \in SeqsUpTo(RawHeaders, MaxRawHeaders)},
        rx \in HeaderRegexes, sf \in SanitizeFields}

\* collect_custom_headers_attributes(carrier, ...) returns or raises.
CollectCustomHeaders ==
    /\ pure.fn = "headers" /\ pure.state = "called"
    /\ pure' = IF CustomHeadersRaise(pure.carrier)
               THEN [pure EXCEPT !.state = "raised"]
               ELSE [pure EXCEPT
                       !.state = "returned",
                       !.handed = DecodedHeaders(pure.carrier),
                       !.result = collect_custom_headers_attributes(
                                      pure.carrier, pure.sanitize_fields,
                                      pure.header_regexes)]
    /\ UNCHANGED <<req, content_length_header, active_requests, sched>>

InitPure ==
    /\ req = [s \in Reqs |-> InitReq]
    /\ content_length_header = NoneVal
    /\ active_requests = 0
    /\ sched = "pure"
    /\ pure \in AccessorInit \cup UrlInit \cup HeadersInit

NextPure ==
    \/ \E key \in AccessorKeys, value \in AccessorValues : AccessorSet(key, value)
    \/ CollectRequestAttributes
    \/ CollectCustomHeaders

SpecPure == InitPure /\ [][NextPure]_vars

\* ------------------------------------------------------------------- claims

EndCalls(r) == Count(r.calls, "end")

\* The server span of the request was started.
Traced(r) == Count(r.calls, "start_span") = 1

\* Calls active_requests_counter.add(v, ...) made for the request.
Adds(r, v) == Cardinality({i \in DOMAIN r.calls : r.calls[i] = Call("active_add", v)})

FinalBody(m) == m.type = "http.response.body" /\ ~MsgGet(m, "more_body")

FinalTrailers(m) == m.type = "http.response.trailers" /\ ~MsgGet(m, "more_trailers")

\* C1 (its second half, for a server span that records): for every traced
\* request and every behaviour of the handler, the server span's end is
\* never invoked a second time.
C1_EndNeverCalledTwice ==
    \A s \in Reqs : (Traced(req[s]) /\ req[s].sampled) => EndCalls(req[s]) <= 1

\* C2: a traced http request adds +1 to the active-request counter exactly
\* once, at its start, and -1 exactly once, when the middleware call
\* finishes, whether the handler returns or raises; the counter's value is
\* the number of traced http requests in flight.
C2_ActiveRequestsBalanced ==
    /\ \A s \in Reqs :
          (req[s].type = "http" /\ Traced(req[s])) =>
              /\ Adds(req[s], 1) = 1
              /\ Adds(req[s], -1) = (IF req[s].pc = "done" THEN 1 ELSE 0)
    /\ active_requests =
          Cardinality({s \in Reqs : req[s].type = "http" /\ Traced(req[s])
                                     /\ req[s].pc # "done"})

C2_Witness ==
    \E s \in Reqs :
        /\ req[s].type = "http" /\ req[s].pc = "done"
        /\ req[s].raised = "AppError"
        /\ Adds(req[s], 1) = 1 /\ Adds(req[s], -1) = 1

\* C3: for a scope type other than http and websocket, or an excluded URL,
\* the only thing the middleware does is to call the inner handler once with
\* the original receive and send: no span, no token, no metric call.
C3_UntracedPassthrough ==
    \A s \in Reqs :
        (req[s].pc # "idle"
         /\ (req[s].type \notin {"http", "websocket"} \/ req[s].excluded)) =>
            /\ req[s].calls = <<Call("app", 0)>>
            /\ ~req[s].wrapped /\ ~req[s].token /\ req[s].child_open = 0

C3_Witness ==
    \E s \in Reqs :
        /\ req[s].type = "http" /\ req[s].excluded /\ req[s].pc = "done"
        /\ req[s].calls = <<Call("app", 0)>>

\* C4: in an http request whose start messages announce no trailers, a
\* wrapped send call never ends the server span before its real send has
\* returned, does not end it for a start message or a body chunk with
\* more_body, and ends it when the real send of a body chunk without
\* more_body has returned.
C4_EndsAfterFinalBody ==
    [][\A s \in Reqs :
          (req[s].type = "http" /\ req[s].wrapped /\ req[s].trailers = "none") =>
              /\ (req[s].pc = "app" /\ req'[s].pc # "done") =>
                     EndCalls(req'[s]) = EndCalls(req[s])
              /\ req[s].pc = "send" =>
                     IF SendReturns(s) /\ FinalBody(req[s].message)
                     THEN req'[s].calls = Append(req[s].calls, Call("end", NoneVal))
                     ELSE req'[s].calls = req[s].calls]_vars

C4_Witness ==
    \E s \in Reqs :
        /\ req[s].type = "http" /\ req[s].trailers = "none"
        /\ req[s].status_attr # NoStatus
        /\ req[s].pc = "app" /\ EndCalls(req[s]) = 1

\* C5: in an http request whose start message announced trailers (and was
\* sent), a wrapped send call ends the server span, here one that records,
\* only when the real send of a trailers message without more_trailers has
\* returned; in particular not after the final body chunk.
C5_EndsOnlyAfterTrailers ==
    [][\A s \in Reqs :
          (req[s].trailers = "sent" /\ req[s].sampled /\ SendReturns(s)
           /\ EndCalls(req'[s]) > EndCalls(req[s])) =>
              FinalTrailers(req[s].message)]_vars

\* C6: when the handler of a traced http request raises or is cancelled,
\* the caller gets that same exception, after exactly one duration record
\* and one decrement of the active-request counter.
C6_HandlerExceptionUnchanged ==
    \A s \in Reqs :
        (req[s].type = "http" /\ req[s].wrapped /\ req[s].pc = "done"
         /\ req[s].raised \in {"AppError", "CancelledError"}) =>
            /\ req[s].outcome = req[s].raised
            /\ Count(req[s].calls, "duration_record") = 1
            /\ Adds(req[s], -1) = 1

\* C7: every context token acquired is detached exactly once, when the
\* handler call is over, on every exit path; nothing is detached when no
\* token was acquired.
C7_TokenDetachedOnce ==
    \A s \in Reqs :
        Count(req[s].calls, "detach") =
            (IF req[s].pc = "done" THEN Count(req[s].calls, "attach") ELSE 0)

\* C8: a receive or send child span is open only while its wrapped call is
\* in progress: none is open once the call has returned or raised.
C8_ChildSpanWithinCall ==
    \A s \in Reqs :
        req[s].child_open = (IF req[s].pc \in {"send", "receive"} THEN 1 ELSE 0)

C8_Witness ==
    \E s \in Reqs :
        /\ req[s].pc = "app" /\ req[s].child_open = 0
        /\ req[s].trailers = "sent" /\ req[s].own_cl = NoneVal

\* C9: with two requests in flight, the response size recorded at the end
\* of a request is the latest parseable content-length of its own outgoing
\* messages, never one of the other request.
C9_ResponseSizeIsOwn ==
    \A s \in Reqs :
        req[s].pc = "done" =>
            \A i \in DOMAIN req[s].calls :
                req[s].calls[i][1] = "response_size_record" =>
                    req[s].calls[i][2] = req[s].own_cl

\* C10 (the response half): after any earlier requests through the same
\* instance, a traced http request records the response size at most once,
\* and only if a parseable content-length was seen on one of its own
\* outgoing messages.
C10_ResponseSizeOnlyIfSeen ==
    \A s \in Reqs :
        (req[s].type = "http" /\ req[s].wrapped /\ req[s].pc = "done") =>
            /\ Count(req[s].calls, "response_size_record") <= 1
            /\ Count(req[s].calls, "response_size_record") = 1 =>
                   req[s].own_cl # NoneVal

\* C11 (as claimed): every request whose server span is started, http or
\* websocket, has exactly one duration record once the middleware call has
\* finished, and none before.
C11_DurationOncePerTracedRequest ==
    \A s \in Reqs :
        Traced(req[s]) =>
            Count(req[s].calls, "duration_record") =
                (IF req[s].pc = "done" THEN 1 ELSE 0)

\* C11 (amended): a traced http request has exactly one duration record
\* once the middleware call has finished, and none before; a websocket
\* request has none at any time.
C11_DurationOncePerHttpRequest ==
    \A s \in Reqs :
        Traced(req[s]) =>
            Count(req[s].calls, "duration_record") =
                (IF req[s].pc = "done" /\ req[s].type = "http" THEN 1 ELSE 0)

C11_Witness ==
    \E s \in Reqs :
        /\ req[s].type = "http" /\ req[s].pc = "done" /\ req[s].wrapped
        /\ req[s].outcome = "returned"
        /\ Count(req[s].calls, "duration_record") = 1

\* C12: a traced websocket request leaves the active-request counter alone,
\* at its start and at its end, whether the handler returns or raises; its
\* server span is started and, when it records, ended once at the end.
C12_WebsocketNotCounted ==
    \A s \in Reqs :
        (req[s].type = "websocket" /\ req[s].pc # "idle" /\ ~req[s].excluded) =>
            /\ Count(req[s].calls, "active_add") = 0
            /\ Count(req[s].calls, "start_span") = 1
            /\ active_requests = 0
            /\ (req[s].pc = "done" /\ req[s].sampled) => EndCalls(req[s]) = 1

C12_Witness ==
    \E s \in Reqs :
        /\ req[s].type = "websocket" /\ req[s].pc = "done"
        /\ req[s].raised = "AppError" /\ req[s].sampled
        /\ EndCalls(req[s]) = 1 /\ Count(req[s].calls, "active_add") = 0

\* C13: set_status_code raises for no status value, so a wrapped send of an
\* http.response.start message whose headers decode reaches the real send
\* with that message, whatever its status.
C13_StatusNeverRaises ==
    [][\A s \in Reqs : \A m \in SendMsgs(req[s].type) :
         \A child_rec \in Recording, prop \in Propagators :
           (/\ req[s].pc = "app"
            /\ IsStart(m)
            /\ ~GetRaises(Injected(m, prop), "content-length")
            /\ AppSend(s, m, child_rec, prop))
           => /\ req'[s].pc = "send"
              /\ req'[s].message = Injected(m, prop)]_vars

\* The content-length values of an outgoing message, as otel_send reads them.
C14_Values(m) == ASGIGetter_get(m, "content-length")

\* The start messages whose content-length is text that is no number.
C14_NonNumericMsgs ==
    {[type |-> "http.response.start", status |-> StatusInt(200),
      headers |-> ContentLength("content-length", BAbc)]}

C15_SameButHeaders(m, out) ==
    /\ DOMAIN out \subseteq DOMAIN m \cup {"headers"}
    /\ \A f \in DOMAIN m \ {"headers"} : f \in DOMAIN out /\ out[f] = m[f]
    /\ "headers" \in DOMAIN m =>
           /\ "headers" \in DOMAIN out
           /\ Len(out.headers) >= Len(m.headers)
           /\ SubSeq(out.headers, 1, Len(m.headers)) = m.headers

\* C15: every wrapped send in which no hook raises, called with a message
\* whose headers decode, invokes the real send with that message, its fields
\* unchanged except for appended header pairs.
C15_SendForwarded ==
    [][\A s \in Reqs : \A m \in SendMsgs(req[s].type) :
         \A child_rec \in Recording, prop \in Propagators :
           (/\ req[s].pc = "app"
            /\ ~GetRaises(m, "content-length")
            /\ AppSend(s, m, child_rec, prop))
           => /\ req'[s].pc = "send"
              /\ C15_SameButHeaders(m, req'[s].message)]_vars

C17_Host(scope) ==
    LET host == ScopeGet(scope, "server", <<<<48, 46, 48, 46, 48, 46, 48>>, 80>>)[1]
        ats == {i \in DOMAIN host : host[i] = 64}
    IN  IF ats = {} THEN host
        ELSE SubSeq(host, (CHOOSE i \in ats : \A j \in ats : i >= j) + 1, Len(host))

C17_Port(scope) ==
    ScopeGet(scope, "server", <<<<48, 46, 48, 46, 48, 46, 48>>, 80>>)[2]

C17_Prefix(scope) ==
    ScopeGet(scope, "scheme", <<104, 116, 116, 112>>) \o <<58, 47, 47>>
    \o C17_Host(scope)
    \o (IF C17_Port(scope) = 80 THEN <<>> ELSE <<58>> \o Str(C17_Port(scope)))

C17_Query(scope) ==
    IF ScopeGet(scope, "query_string", <<>>) = <<>> THEN <<>>
    ELSE <<63>> \o Unquote(Decode(scope.query_string))

\* C17 (as claimed): the URL is scheme://host[:port]path, the port suffix
\* left out exactly for port 80, followed by "?" and the percent-decoded
\* query string exactly when the query string is not empty.
C17_UrlIsSchemeHostPath ==
    (pure.fn = "url" /\ pure.state = "returned") =>
        pure.result = C17_Prefix(pure.scope) \o pure.scope.path
                      \o C17_Query(pure.scope)

\* C17 (amended): the same with root_path, when the scope has one, between
\* the port suffix and the path.
C17_UrlIsSchemeHostRootPath ==
    (pure.fn = "url" /\ pure.state = "returned") =>
        pure.result = C17_Prefix(pure.scope)
                      \o ScopeGet(pure.scope, "root_path", <<>>) \o pure.scope.path
                      \o C17_Query(pure.scope)

\* http://h:8080/r/a?A from scheme http, server h:8080, root_path /r,
\* path /a and query string %41.
C17_Witness ==
    /\ pure.fn = "url" /\ pure.state = "returned"
    /\ pure.scope = [scheme |-> <<104, 116, 116, 112>>, server |-> <<<<104>>, 8080>>,
                     root_path |-> <<47, 114>>, path |-> <<47, 97>>,
                     query_string |-> <<37, 52, 49>>]
    /\ pure.result = <<104, 116, 116, 112, 58, 47, 47, 104, 58, 56, 48, 56, 48,
                       47, 114, 47, 97, 63, 65>>

\* The values of the headers named k (in any letter case), in document
\* order, joined with ",".
RECURSIVE C18_Joined(_, _)
C18_Joined(raw_headers, k) ==
    LET mine == SelectSeq(raw_headers, LAMBDA h : Lower(h[1]) = k)
    IN  IF Len(mine) = 1 THEN Decode(mine[1][2])
        ELSE C18_Joined(SubSeq(mine, 1, Len(mine) - 1), k)
             \o <<44>> \o Decode(mine[Len(mine)][2])

C19_IsMetric(call) ==
    \/ call[1] \in {"duration_record", "response_size_record", "request_size_record"}
    \/ call = Call("active_add", -1)

\* The end calls made by otel_send: those the finally block's first record
\* comes after.
C19_SendSideEnds(calls) ==
    {i \in DOMAIN calls :
        /\ calls[i][1] = "end"
        /\ \E j \in DOMAIN calls : j > i /\ calls[j][1] = "duration_record"}

\* C19: the cleanup runs only when the handler call is over; for an http
\* request whose server span records it records the metrics, then detaches
\* the token, then ends the span: the end is the last call when otel_send
\* has not ended the span, and is left out when it has.
C19_CleanupInOrder ==
    \A s \in Reqs :
        (req[s].wrapped /\ req[s].sampled /\ req[s].type = "http") =>
            LET calls == req[s].calls IN
            IF req[s].pc # "done"
            THEN \A i \in DOMAIN calls :
                    ~C19_IsMetric(calls[i]) /\ calls[i][1] # "detach"
            ELSE /\ Count(calls, "duration_record") = 1
                 /\ req[s].token => Count(calls, "detach") = 1
                 /\ \A i, j \in DOMAIN calls :
                       (i < j /\ calls[i][1] = "detach") => calls[j][1] = "end"
                 /\ \A i, j \in DOMAIN calls :
                       (i < j /\ calls[i][1] = "duration_record") =>
                           \/ C19_IsMetric(calls[j])
                           \/ calls[j][1] \in {"detach", "end"}
                 /\ IF C19_SendSideEnds(calls) = {}
                    THEN EndCalls(req[s]) = 1 /\ calls[Len(calls)][1] = "end"
                    ELSE EndCalls(req[s]) = Cardinality(C19_SendSideEnds(calls))

\* C20: when the real send raises on a message that would have ended the
\* server span, otel_send makes no call on the server span, its child span
\* is ended and the handler has the exception; and when the handler call is
\* over with the span still not ended, the cleanup ends it.
C20_SendFailureLeavesEndToCleanup ==
    [][\A s \in Reqs :
         /\ (/\ req[s].pc = "send"
             /\ ShouldEnd(req[s].expecting_trailers, req[s].message)
             /\ SendRaises(s))
            => /\ req'[s].calls = req[s].calls
               /\ req'[s].child_open = 0
               /\ req'[s].pc = "app"
         /\ (/\ req[s].pc = "app" /\ req'[s].pc = "done"
             /\ req[s].wrapped /\ req[s].sampled /\ req[s].send_failed
             /\ EndCalls(req[s]) = 0)
            => EndCalls(req'[s]) = 1]_vars

\* C21: when the server request hook raises, the caller gets the hook's
\* exception, the handler is not called, and the cleanup is complete: the
\* token, if any, is detached, a recording server span is ended exactly once
\* and, for http, the counter is decremented and the duration recorded.
C21_RequestHookRaises ==
    \A s \in Reqs :
        (req[s].pc = "done" /\ req[s].raised = "HookError") =>
            /\ req[s].outcome = "HookError"
            /\ Count(req[s].calls, "app") = 0
            /\ Count(req[s].calls, "detach") = Count(req[s].calls, "attach")
            /\ req[s].sampled => EndCalls(req[s]) = 1
            /\ req[s].type = "http" =>
                   /\ Adds(req[s], -1) = 1
                   /\ Count(req[s].calls, "duration_record") = 1

\* C22: the attributes that the duration record of an http request is made
\* with (duration_attrs) carry the status of the latest http.response.start
\* passed to otel_send: while such a message, with an integer status, is at
\* the real send, they hold its status.
C22_DurationStatusIsLatestStart ==
    \A s \in Reqs :
        (/\ req[s].type = "http" /\ req[s].pc = "send"
         /\ IsStart(req[s].message) /\ req[s].message.status.t = "int") =>
            req[s].status_attr = req[s].message.status

\* C23: called with an empty list of allowed name patterns,
\* collect_custom_headers_attributes returns the empty map and does not
\* fail, whatever the headers.
C23_EmptyPatternsShortCircuit ==
    (pure.fn = "headers" /\ pure.header_regexes = {} /\ pure.state # "called") =>
        /\ pure.state = "returned"
        /\ pure.result = <<>>

\* The messages that give the server span a status.
C24_StatusMsgs == {m \in CaptureMsgs : IsStart(m) \/ m.type = "websocket.send"}

\* Once the server span was ended, a step of the same request leaves the
\* status and the response-header attributes of the span as they were.
C24_FrameAfterEnd ==
    [][\A s \in Reqs :
          (EndCalls(req[s]) >= 1 /\ req'[s].pc # "idle") =>
              /\ req'[s].span_status = req[s].span_status
              /\ req'[s].span_attrs = req[s].span_attrs]_vars

\* C24: once the server span was ended by otel_send, no later step of the
\* same request changes the status or the response-header attributes of
\* the span, and a later http.response.start or websocket.send passed to
\* otel_send, the hook not raising, still reaches the real send.
C24_EndedSpanUntouched ==
    [][\A s \in Reqs :
          (EndCalls(req[s]) >= 1 /\ req'[s].pc # "idle") =>
              /\ req'[s].span_status = req[s].span_status
              /\ req'[s].span_attrs = req[s].span_attrs
              /\ (req[s].pc = "app" /\ req'[s].pc = "app") =>
                     \A m \in C24_StatusMsgs, child_rec \in Recording :
                         ~AppSend(s, m, child_rec, FALSE)]_vars

\* A start with a captured header is at the real send after the span was
\* ended with status 200 and no response-header attribute.
C24_Witness ==
    \E s \in Reqs :
        /\ req[s].sampled /\ req[s].token /\ EndCalls(req[s]) >= 1
        /\ req[s].pc = "send"
        /\ req[s].message.type = "http.response.start"
        /\ "headers" \in DOMAIN req[s].message
        /\ req[s].status_attr = StatusInt(404)
        /\ req[s].span_status = StatusInt(200)
        /\ req[s].span_attrs = <<>>

\* C25: the trailers-expected flag and the termination decision are per
\* request: a step of one request leaves the other request's flag and the
\* number of ends of its server span as they were, and when the real send
\* returns for a final body of a request that expects no trailers, its
\* server span is ended, whatever the other request expects.
C25_PerRequestTermination ==
    [][/\ \A s \in Reqs, t \in Reqs :
             (s # t /\ req'[s] # req[s]) =>
                 /\ req'[t].expecting_trailers = req[t].expecting_trailers
                 /\ EndCalls(req'[t]) = EndCalls(req[t])
       /\ \A s \in Reqs :
             (/\ req[s].pc = "send" /\ req'[s].pc = "app"
              /\ ~req[s].expecting_trailers /\ FinalBody(req[s].message)
              /\ SendReturns(s)) =>
                 EndCalls(req'[s]) = EndCalls(req[s]) + 1]_vars

\* Request A announced trailers and waits for them, its span not ended,
\* while the span of request B, in flight, was ended after its final body.
C25_Witness ==
    /\ sched = "concurrent"
    /\ req["A"].pc = "app" /\ req["A"].expecting_trailers
    /\ req["A"].trailers = "sent" /\ EndCalls(req["A"]) = 0
    /\ req["B"].pc = "app" /\ ~req["B"].expecting_trailers
    /\ EndCalls(req["B"]) = 1

\* C26: when the client response hook raises inside otel_send, the message
\* does not reach the real send, the child send span is ended, the server
\* span is not ended by that call, whether or not the message is a terminal
\* frame, and the handler that called send goes on with the exception.
C26_ResponseHookRaises ==
    [][\A s \in Reqs :
          (req[s].pc = "app" /\ req[s].wrapped) =>
              \A m \in SendMsgs(req[s].type) :
                  AppSendHookRaises(s, m) =>
                      /\ req'[s].pc = "app"
                      /\ req'[s].message = NoMsg
                      /\ req'[s].child_open = req[s].child_open
                      /\ req'[s].calls = req[s].calls
                      /\ req'[s].hook_failed = ShouldEnd(req[s].expecting_trailers, m)]_vars

\* The hook raised on a terminal frame of a request whose span records:
\* the handler holds the exception, the span was not ended, no child span
\* is open and nothing is at the real send.
C26_Witness ==
    \E s \in Reqs :
        /\ req[s].hook_failed /\ req[s].pc = "app"
        /\ req[s].sampled /\ EndCalls(req[s]) = 0
        /\ req[s].child_open = 0 /\ req[s].message = NoMsg

====
